---------------------------- MODULE Spec2Model ----------------------------
(***************************************************************************)
(* cof: content-addressed object synchronisation over datagrams.           *)
(*                                                                         *)
(* The module models                                                       *)
(*   - the Graph Synchronizer of src/src/cof/remote.py (clone_repository,  *)
(*     pull_from_remote, _fetch_objects_recursive, _fetch_tree_recursive,  *)
(*     _matches_filter) as a state machine whose steps are the suspension  *)
(*     points of the coroutine (one client request per step), and          *)
(*   - the Packet Codec (cof.network.NetworkPacket pack / unpack), whose   *)
(*     source is not part of src/ and is modelled from spec.md, sections   *)
(*     3, 4.1 and 6, and from src/tests/test_network.py.                   *)
(***************************************************************************)
EXTENDS Integers, Sequences, FiniteSets, TLC

(***************************************************************************)
(* Bounds of the model.                                                    *)
(***************************************************************************)
\* number of clone / pull operations run one after the other
MaxOps == 2
\* clone depths tried: 1 .. MaxDepth, and no depth
MaxDepth == 4
\* turns of the receive loop in a server run
MaxTurns == 2

None == "none"

(***************************************************************************)
(* Strings that are inspected character by character (entry names, path   *)
(* filters) are sequences of one-character strings.                        *)
(***************************************************************************)
S_src == <<"s", "r", "c">>
S_docs == <<"d", "o", "c", "s">>
S_a_txt == <<"a", ".", "t", "x", "t">>
S_b_md == <<"b", ".", "m", "d">>
S_f == <<"f">>
S_g == <<"g">>
S_h == <<"h">>

\* path filters offered to clone; the empty string is falsy like None
NoFilter == <<>>
F_docs_star == <<"d", "o", "c", "s", "/", "*">>
F_docs_starstar == <<"d", "o", "c", "s", "/", "*", "*">>
F_star == <<"*">>
PathFilters == {NoFilter, F_docs_star, F_docs_starstar, F_star}

(***************************************************************************)
(* The remote repository: an immutable object graph (spec.md section 3).   *)
(*   main: C3 -> C2 -> C1      dev: D1 -> C1                               *)
(*   C3.tree = T3 = {src/ -> TS = {a.txt -> BA}, docs/ -> TD = {b.md -> BB}}*)
(*   C2.tree = C1.tree = D1.tree = T2 = {f -> BA, g -> BA, h -> BC}        *)
(*   BA.blocks = <<K1, K2>>    BB.blocks = <<K3>>    BC.blocks = <<K2>>    *)
(***************************************************************************)
Commits == {"C1", "C2", "C3", "D1"}
Trees == {"T2", "T3", "TS", "TD"}
Blobs == {"BA", "BB", "BC"}
Blocks == {"K1", "K2", "K3"}
ObjectHashes == Commits \cup Trees \cup Blobs
Hashes == ObjectHashes \cup Blocks

Commit(p, t) == [kind |-> "commit", parent |-> p, tree_root |-> t,
                 entries |-> <<>>, block_hashes |-> <<>>]
Tree(es) == [kind |-> "tree", parent |-> None, tree_root |-> None,
             entries |-> es, block_hashes |-> <<>>]
Blob(bs) == [kind |-> "blob", parent |-> None, tree_root |-> None,
             entries |-> <<>>, block_hashes |-> bs]
Entry(n, k, h) == [name |-> n, kind |-> k, hash |-> h]

WellFormed ==
    [h \in ObjectHashes |->
        CASE h = "C3" -> Commit("C2", "T3")
          [] h = "C2" -> Commit("C1", "T2")
          [] h = "C1" -> Commit(None, "T2")
          [] h = "D1" -> Commit("C1", "T2")
          [] h = "T3" -> Tree(<<Entry(S_src, "dir", "TS"), Entry(S_docs, "dir", "TD")>>)
          [] h = "TS" -> Tree(<<Entry(S_a_txt, "file", "BA")>>)
          [] h = "TD" -> Tree(<<Entry(S_b_md, "file", "BB")>>)
          [] h = "T2" -> Tree(<<Entry(S_f, "file", "BA"), Entry(S_g, "file", "BA"),
                                Entry(S_h, "file", "BC")>>)
          [] h = "BA" -> Blob(<<"K1", "K2">>)
          [] h = "BB" -> Blob(<<"K3">>)
          [] h = "BC" -> Blob(<<"K2">>)]

\* the same hashes in a graph that is no DAG: C1 is its own ancestor
\* (C3 -> C2 -> C1 -> C3), D1 is its own parent, T2 names itself under g, and
\* TS names the tree T3 that holds it
Malformed ==
    [h \in ObjectHashes |->
        CASE h = "C1" -> Commit("C3", "T2")
          [] h = "D1" -> Commit("D1", "T2")
          [] h = "T2" -> Tree(<<Entry(S_f, "file", "BA"), Entry(S_g, "dir", "T2"),
                                Entry(S_h, "file", "BC")>>)
          [] h = "TS" -> Tree(<<Entry(S_a_txt, "file", "BA"), Entry(S_g, "dir", "T3")>>)
          [] OTHER -> WellFormed[h]]

Graphs == {"wellformed", "malformed"}

VARIABLE graph     \* which of the two graphs the remote repository holds

\* the objects of the remote repository, by hash
RemoteObjects == IF graph = "malformed" THEN Malformed ELSE WellFormed

Branches == {"main", "dev"}
RemoteRefs == [b \in Branches |-> IF b = "main" THEN "C3" ELSE "D1"]
NoRefs == [b \in Branches |-> None]

\* block bytes and the content hash (BLAKE3) of each; "junk" is what a peer
\* sends when the bytes do not belong to the requested hash
RemoteBlocks ==
    [k \in Blocks |-> CASE k = "K1" -> "bytesK1" [] k = "K2" -> "bytesK2"
                        [] k = "K3" -> "bytesK3"]
\* storage.store_block(data, commit_seq) files the bytes under their own hash
\* and returns it
HashOfBytes(d) ==
    CASE d = "bytesK1" -> "K1" [] d = "bytesK2" -> "K2" [] d = "bytesK3" -> "K3"
      [] OTHER -> "KX"


(***************************************************************************)
(* fnmatch.fnmatch on a POSIX host: '*' matches any run of characters      *)
(* ('/' included), '?' one character, anything else itself.  The patterns  *)
(* of this model hold no '[' set.                                          *)
(***************************************************************************)
RECURSIVE Fnmatch(_, _)
Fnmatch(s, p) ==
    IF p = <<>> THEN s = <<>>
    ELSE IF Head(p) = "*"
         THEN Fnmatch(s, Tail(p)) \/ (s /= <<>> /\ Fnmatch(Tail(s), p))
    ELSE IF Head(p) = "?"
         THEN s /= <<>> /\ Fnmatch(Tail(s), Tail(p))
    ELSE s /= <<>> /\ Head(s) = Head(p) /\ Fnmatch(Tail(s), Tail(p))

\* str.split('**'): the pieces between non-overlapping occurrences, left to right
RECURSIVE SplitStarStar(_)
SplitStarStar(p) ==
    IF p = <<>> THEN << <<>> >>
    ELSE IF Len(p) >= 2 /\ p[1] = "*" /\ p[2] = "*"
         THEN << <<>> >> \o SplitStarStar(SubSeq(p, 3, Len(p)))
    ELSE LET r == SplitStarStar(Tail(p))
         IN  << <<Head(p)>> \o r[1] >> \o Tail(r)

RECURSIVE RStripSlash(_)
RStripSlash(s) ==
    IF s /= <<>> /\ s[Len(s)] = "/" THEN RStripSlash(SubSeq(s, 1, Len(s) - 1)) ELSE s

RECURSIVE LStripSlash(_)
LStripSlash(s) ==
    IF s /= <<>> /\ Head(s) = "/" THEN LStripSlash(Tail(s)) ELSE s

StartsWith(s, pre) == Len(pre) <= Len(s) /\ SubSeq(s, 1, Len(pre)) = pre

\* RemoteOperations._matches_filter
MatchesFilter(path, pattern) ==
    LET parts == SplitStarStar(pattern) IN
    IF Len(parts) = 2
    THEN LET prefix == parts[1]
             suffix == parts[2]
         IN  IF prefix /= <<>> /\ ~StartsWith(path, RStripSlash(prefix)) THEN FALSE
             ELSE IF suffix /= <<>> THEN Fnmatch(path, <<"*">> \o LStripSlash(suffix))
             ELSE TRUE
    ELSE Fnmatch(path, pattern)

\* os.path.join(current_path, entry_name) if current_path else entry_name
EntryPath(current_path, entry_name) ==
    IF current_path /= <<>> THEN current_path \o <<"/">> \o entry_name ELSE entry_name

\* `if path_filter and not self._matches_filter(entry_path, path_filter): continue`
EntrySkipped(path_filter, entry_path) ==
    path_filter /= <<>> /\ ~MatchesFilter(entry_path, path_filter)

\* (mutation) the bound compared without the "- 1"
WithinDepth_OffByOne(depth, current_depth) ==
    depth = {} \/ \E d \in depth : current_depth < d

\* `depth is None or current_depth < depth - 1`; a depth is {} (None) or {d}
WithinDepth(depth, current_depth) ==
    depth = {} \/ \E d \in depth : current_depth < d - 1

\* (mutation) the visited set is never consulted
AlreadyFetched_Never(h, fetchedSet) == FALSE

\* (mutation) the visited set is consulted for commits alone
AlreadyFetched_CommitsOnly(h, fetchedSet) == h \in fetchedSet /\ h \in Commits

\* `if h in fetched` / `if h not in fetched`: the per-traversal visited set
AlreadyFetched(h, fetchedSet) == h \in fetchedSet

\* (mutation) an empty reply is not noticed
Missing_Ignored(reply) == FALSE

\* `if not obj_data: raise click.ClickException(...)`
Missing(reply) == reply = None

\* the keys the traversal looks for in a decoded object
HasParent(o) == o.kind = "commit" /\ o.parent /= None
HasTreeRoot(o) == o.kind = "commit"
HasEntries(o) == o.kind = "tree"
HasBlockHashes(o) == o.kind = "blob"

\* what client.request_object / client.request_block can hand back
ObjectReplies(h) == {None, h}
BlockReplies(k) == {None, RemoteBlocks[k], "junk"}

(***************************************************************************)
(* What a push collects.  `store` is the local object tier; an object's    *)
(* contents are those its hash has in the graph above.  Each operator      *)
(* returns the dict's keys in insertion order together with the `fetched`  *)
(* set as the call leaves it.                                              *)
(***************************************************************************)
Collected(objects, fetchedSet) == [objects |-> objects, fetched |-> fetchedSet]

\* (mutation) every object of the graph loads
Loaded_Always(h, store) == TRUE

\* repository._load_object(h) returned something
Loaded(h, store) == h \in store

\* the loop of _get_tree_objects over the entries of tree t, from entry i on:
\* `if blob_hash not in fetched` and `if blob_data`
RECURSIVE TreeEntryObjects(_, _, _, _)
TreeEntryObjects(t, i, fetchedSet, store) ==
    LET es == RemoteObjects[t].entries IN
    IF i > Len(es) THEN Collected(<<>>, fetchedSet)
    ELSE IF ~AlreadyFetched(es[i].hash, fetchedSet) /\ Loaded(es[i].hash, store)
    THEN LET rest == TreeEntryObjects(t, i + 1, fetchedSet \cup {es[i].hash}, store)
         IN  Collected(<<es[i].hash>> \o rest.objects, rest.fetched)
    ELSE TreeEntryObjects(t, i + 1, fetchedSet, store)

\* _get_tree_objects(tree_hash, fetched)
GetTreeObjects(tree_hash, fetchedSet, store) ==
    IF AlreadyFetched(tree_hash, fetchedSet) \/ ~Loaded(tree_hash, store)
    THEN Collected(<<>>, fetchedSet)
    ELSE IF HasEntries(RemoteObjects[tree_hash])
    THEN LET es == TreeEntryObjects(tree_hash, 1, fetchedSet \cup {tree_hash}, store)
         IN  Collected(<<tree_hash>> \o es.objects, es.fetched)
    ELSE Collected(<<tree_hash>>, fetchedSet \cup {tree_hash})

\* _get_objects_to_push(commit_hash, fetched)
RECURSIVE GetObjectsToPush(_, _, _)
GetObjectsToPush(commit_hash, fetchedSet, store) ==
    IF AlreadyFetched(commit_hash, fetchedSet) \/ ~Loaded(commit_hash, store)
    THEN Collected(<<>>, fetchedSet)
    ELSE LET o == RemoteObjects[commit_hash]
             own == fetchedSet \cup {commit_hash}
             parent_objects == IF HasParent(o)
                               THEN GetObjectsToPush(o.parent, own, store)
                               ELSE Collected(<<>>, own)
             tree_objects == IF HasTreeRoot(o)
                             THEN GetTreeObjects(o.tree_root, parent_objects.fetched, store)
                             ELSE Collected(<<>>, parent_objects.fetched)
         IN  Collected(<<commit_hash>> \o parent_objects.objects \o tree_objects.objects,
                       tree_objects.fetched)

\* how an exchange of the session client can end: with a reply packet of some
\* type or, the retry budget spent, with timeout_exceeded
HandshakeReplies == {"HANDSHAKE_ACK", "ERROR", "REF_RESPONSE", "timeout_exceeded"}
PushReplies == {"PUSH_RESPONSE", "ERROR", "timeout_exceeded"}

\* NetworkClient.handshake(remote): true for a HANDSHAKE_ACK reply alone
HandshakeResult(reply) == reply = "HANDSHAKE_ACK"

\* NetworkClient.push_objects: an object counts as pushed on PUSH_RESPONSE
PushAcked(reply) == reply = "PUSH_RESPONSE"

\* (mutation) the result of the handshake is not looked at
HandshakeFailed_Ignored(ok) == FALSE

\* `if not await client.handshake(remote): raise click.ClickException(...)`
HandshakeFailed(ok) == ~ok

(***************************************************************************)
(* Packet Codec (cof.network.NetworkPacket; spec.md 3, 4.1, 6).  Bytes are *)
(* 0..255; a byte string is a sequence of bytes.  Wire layout:             *)
(*   checksum (16 hex characters) | packet_type (1 byte) |                 *)
(*   len(session_id) u16 | session_id | len(repo_path) u16 | repo_path |   *)
(*   sequence u32 | total_packets u32 | payload                            *)
(* with big-endian fixed-width integers.                                   *)
(***************************************************************************)
\* length of the checksum field: the first 16 hex characters of the digest
ChecksumLen == 16
\* network.packet_size of the test configuration
PacketSize == 1024
\* bytes of the fixed-width header fields: type 1, two u16 lengths, two u32
FixedHeaderLen == 13
MinPacketSize == ChecksumLen + FixedHeaderLen

PacketTypes == <<"HANDSHAKE", "HANDSHAKE_ACK", "OBJECT_REQUEST", "OBJECT_RESPONSE",
                 "BLOCK_REQUEST", "BLOCK_RESPONSE", "REF_REQUEST", "REF_RESPONSE",
                 "PUSH_REQUEST", "PUSH_RESPONSE", "DATA", "ERROR">>
TypeByte(t) == CHOOSE i \in 1..Len(PacketTypes) : PacketTypes[i] = t
\* an unknown type byte decodes as ERROR
TypeOfByte(b) == IF b \in 1..Len(PacketTypes) THEN PacketTypes[b] ELSE "ERROR"

U16(n) == <<(n \div 256) % 256, n % 256>>
U32(n) == <<(n \div 16777216) % 256, (n \div 65536) % 256, (n \div 256) % 256, n % 256>>
FromU16(b, at) == b[at] * 256 + b[at + 1]
FromU32(b, at) == b[at] * 16777216 + b[at + 1] * 65536 + b[at + 2] * 256 + b[at + 3]

RECURSIVE WeightedSum(_, _, _)
WeightedSum(b, lo, hi) ==
    IF lo > hi THEN 0
    ELSE IF lo = hi THEN lo * (b[lo] + 1)
    ELSE LET mid == (lo + hi) \div 2
         IN  WeightedSum(b, lo, mid) + WeightedSum(b, mid + 1, hi)

HexChar(d) == IF d < 10 THEN 48 + d ELSE 87 + d

\* blake3(bytes).hexdigest()[:16], as a deterministic digest of the content and
\* the position of every byte (the cryptographic function itself is abstracted)
Checksum(bytes) ==
    LET acc == (WeightedSum(bytes, 1, Len(bytes)) + Len(bytes)) % 65536
    IN  [i \in 1..ChecksumLen |-> HexChar(((acc * (2 * i + 1) + i) \div (16 ^ (i % 4))) % 16)]

\* the serialized bytes the checksum covers
Body(packet_type, session_id, repo_path, sequence, total_packets, payload) ==
    <<TypeByte(packet_type)>>
    \o U16(Len(session_id)) \o session_id
    \o U16(Len(repo_path)) \o repo_path
    \o U32(sequence) \o U32(total_packets)
    \o payload

\* NetworkPacket(...): the constructor computes the checksum
NetworkPacket(packet_type, session_id, repo_path, sequence, total_packets, payload) ==
    [packet_type |-> packet_type, session_id |-> session_id, repo_path |-> repo_path,
     sequence |-> sequence, total_packets |-> total_packets, payload |-> payload,
     checksum |-> Checksum(Body(packet_type, session_id, repo_path, sequence,
                                total_packets, payload))]

NoPacket ==
    [packet_type |-> None, session_id |-> <<>>, repo_path |-> <<>>, sequence |-> 0,
     total_packets |-> 0, payload |-> <<>>, checksum |-> <<>>]

\* (mutation) the session id goes into a fixed one-byte field
Pack_ShortSession(p) ==
    LET sid == IF Len(p.session_id) > 1 THEN SubSeq(p.session_id, 1, 1) ELSE p.session_id
        body == Body(p.packet_type, sid, p.repo_path, p.sequence, p.total_packets,
                     p.payload)
    IN  Checksum(body) \o body

\* NetworkPacket.pack
Pack(p) ==
    LET body == Body(p.packet_type, p.session_id, p.repo_path, p.sequence,
                     p.total_packets, p.payload)
    IN  Checksum(body) \o body

Failure(text) == [error |-> text, packet |-> NoPacket]

\* (mutation) only the checksum field is required to be present
TooSmall_ChecksumOnly(data) == Len(data) < ChecksumLen

\* 'Packet too small': the input cannot hold checksum and header
TooSmall(data) == Len(data) < MinPacketSize

\* (mutation) the declared checksum is not compared
ChecksumMatches_Unchecked(data) == TRUE

\* the declared checksum equals the checksum of the bytes after it
ChecksumMatches(data) ==
    SubSeq(data, 1, ChecksumLen) = Checksum(SubSeq(data, ChecksumLen + 1, Len(data)))

\* the header and payload of a datagram whose checksum has been accepted
Parse(data) ==
    LET at0 == ChecksumLen + 1
        sidLen == FromU16(data, at0 + 1)
        sidAt == at0 + 3
        rpLenAt == sidAt + sidLen
    IN  IF rpLenAt + 1 > Len(data) THEN Failure("malformed header")
        ELSE LET rpLen == FromU16(data, rpLenAt)
                 rpAt == rpLenAt + 2
                 seqAt == rpAt + rpLen
             IN  IF seqAt + 7 > Len(data) THEN Failure("malformed header")
                 ELSE [error |-> None,
                       packet |-> NetworkPacket(
                           TypeOfByte(data[at0]),
                           SubSeq(data, sidAt, sidAt + sidLen - 1),
                           SubSeq(data, rpAt, rpAt + rpLen - 1),
                           FromU32(data, seqAt),
                           FromU32(data, seqAt + 4),
                           SubSeq(data, seqAt + 8, Len(data)))]

\* NetworkPacket.unpack: [error, packet]
Unpack(data) ==
    IF TooSmall(data) THEN Failure("Packet too small")
    ELSE IF ~ChecksumMatches(data) THEN Failure("checksum mismatch")
    ELSE Parse(data)

\* inputs of the codec
Str_s1 == <<115, 49>>
Str_session == <<115, 101, 115, 115, 105, 111, 110, 49, 50, 51>>
Str_repo == <<109, 121, 47, 114, 101, 112, 111>>
Str_too_short == <<116, 111, 111, 32, 115, 104, 111, 114, 116>>
SessionIds == {<<>>, Str_s1, Str_session}
RepoPaths == {<<>>, Str_repo}
\* the largest is the greatest signed 32-bit value
Sequences == {0, 5, 2147483647}
TotalPackets == {1, 10}
Payloads == {<<>>, <<100, 97, 116, 97>>, [i \in 1..(PacketSize + 1) |-> 120]}
Zeros == [i \in 1..ChecksumLen |-> 48]
ShortLengths == {0, 9, ChecksumLen - 1, ChecksumLen, ChecksumLen + 1, MinPacketSize - 1}

(***************************************************************************)
(* State.                                                                  *)
(***************************************************************************)
VARIABLES
    \* the running operation (clone_repository / pull_from_remote)
    pc,            \* "idle", "handshake", "refs", "fetch"
    op,            \* [kind, depth, filter, branch] of the operation
    refs,          \* what client.request_refs returned
    target,        \* main_commit / remote_commit: the commit being fetched
    stack,         \* the pending calls and loop positions of the traversal
    fetched,       \* the `fetched` set of the traversal
    socketOpen,    \* the NetworkClient of `async with` holds a socket
    result,        \* "none", "running", "true", "false": what the operation returned
    \* the local repository
    repoInit,      \* the target directory holds an initialised repository
    localObjects,  \* hashes in the object tier (repository._save_object)
    localBlocks,   \* hashes in the block tier (repository.storage.store_block)
    localRefs,     \* refs/heads/<branch>; HEAD is "ref: refs/heads/main"
    warned,        \* a 'Block hash mismatch' warning was echoed by the operation
    \* history of the running (or last) operation, read only by the properties
    reqs,          \* per hash, the request_object / request_block calls made
    netCalls,      \* all request_object / request_block calls so far
    callsAtStart,  \* netCalls when the operation started
    missed,        \* some request of the operation returned nothing
    corrupted,     \* some block reply did not hash to the requested hash
    blockLog,      \* <<advertised hash, stored hash>> of every block stored
    refsBefore,    \* localRefs when the operation started
    fetchState,    \* "none", "running", "aborted", "complete"
    prevFetch,     \* commit whose fetch the operation before this one completed
    opsDone,
    hsReply,       \* what the operation's handshake exchange ended with
    pushed,        \* objects handed to a PUSH_REQUEST by the operation
    log,           \* what the operation did so far, in order: its exchanges and stores
    \* the codec at work
    pkt,           \* the packet handed to pack
    wire,          \* the bytes handed to unpack
    wireKind,      \* "none", "packed", "tampered", "short": how wire came about
    decoded,       \* [done, error, packet]: what unpack made of wire
    \* a NetworkClient on its own
    cliSocket,     \* "none", "open", "released"
    cliMaxRetries, \* config.network.max_retries
    cliPc,         \* "idle", "waiting", "done": where the current exchange is
    cliRequest,    \* packet type of the request being exchanged
    cliSent,       \* the datagrams transmitted by the current exchange, in order
    cliOutcome,    \* how the exchange ended: a reply's packet type or an error
    cliAnsweredAt, \* the attempt during which the reply arrived (0: none has)
    \* a NetworkServer
    srvRunning,    \* self.running
    srvSocket,     \* self.socket: "none", "open", "closed"
    srvTasks,      \* datagrams whose _handle_packet task was created, oldest first
    srvObjects,    \* hashes in the object tier of the served repository
    srvTurns,      \* turns of the receive loop so far
    srvLastIn,     \* the datagram the latest handler run was given
    srvLastOut,    \* the datagram that run sent back (<<>> when it sent none)
    srvPushAcked,  \* payloads of the PUSH_REQUESTs answered with PUSH_RESPONSE
    \* collect on its own
    colCommit,     \* the commit_hash _get_objects_to_push was called with
    colStore,      \* the hashes the local object tier held during the call
    colObjects     \* the keys of the dict it returned, in insertion order

opVars == <<pc, op, refs, target, stack, fetched, socketOpen, result>>
repoVars == <<repoInit, localObjects, localBlocks, localRefs, warned>>
histVars == <<reqs, netCalls, callsAtStart, missed, corrupted, blockLog,
              refsBefore, fetchState, prevFetch, opsDone>>
codecVars == <<pkt, wire, wireKind, decoded>>
pushVars == <<hsReply, pushed>>
logVars == <<log>>
clientVars == <<cliSocket, cliMaxRetries, cliPc, cliRequest, cliSent, cliOutcome,
                cliAnsweredAt>>
serverVars == <<srvRunning, srvSocket, srvTasks, srvObjects, srvTurns, srvLastIn,
                srvLastOut, srvPushAcked>>
collectVars == <<colCommit, colStore, colObjects>>
remoteVars == <<graph>>
syncVars == <<opVars, repoVars, histVars, pushVars, logVars>>
nonSyncVars == <<codecVars, clientVars, serverVars, collectVars, remoteVars>>
nonCodecVars == <<syncVars, clientVars, serverVars, collectVars, remoteVars>>
nonClientVars == <<syncVars, codecVars, serverVars, collectVars, remoteVars>>
nonServerVars == <<syncVars, codecVars, clientVars, collectVars, remoteVars>>
nonCollectVars == <<syncVars, codecVars, clientVars, serverVars, remoteVars>>
vars == <<syncVars, codecVars, clientVars, serverVars, collectVars, remoteVars>>

Depths == {{}} \cup {{d} : d \in 1..MaxDepth}
\* config.network.max_retries as the tests configure it
MaxRetries == 3
RemoteNames == {"origin", "elsewhere"}
\* the object tier of the repository the server serves: the graph above and an
\* object whose serialization exceeds a packet
ServedObjects == ObjectHashes \cup {"LG"}
NoOp == [kind |-> "none", depth |-> {}, filter |-> NoFilter, branch |-> "main",
         remote |-> "origin"]
Frame(t, h, i) == [t |-> t, h |-> h, i |-> i]
\* the request packet of a client exchange, by type and session id
RequestPacket(t, sid) == [packet_type |-> t, session_id |-> sid]
NoRequest == RequestPacket(None, <<>>)

\* an entry of the log: a handshake and its result, a ref request and the
\* commit it gave for the branch, the request for a hash, an empty reply to
\* it, the store of an object or block under a hash, a PUSH_REQUEST
Event(kind, what) == [kind |-> kind, what |-> what]

\* (mutation) a commit is used without being saved
SaveObject_NotCommits(store, h) == IF h \in Commits THEN store ELSE store \cup {h}

\* repository._save_object(obj_dict, "object", obj_hash=h): the object tier
\* after the call
SaveObject(store, h) == store \cup {h}

\* the log of one request_object(h): the request, then the empty reply or
\* the store of the object
ObjectExchange(h, reply, store) ==
    <<Event("request", h)>>
    \o (IF Missing(reply) THEN <<Event("empty", h)>>
        ELSE IF h \in SaveObject(store, h) THEN <<Event("store", h)>> ELSE <<>>)

\* the log of one request_block(h): the request, then the empty reply or the
\* store of the bytes under the hash the store gave them
BlockExchange(h, reply) ==
    <<Event("request", h)>>
    \o (IF Missing(reply) THEN <<Event("empty", h)>>
        ELSE <<Event("store", HashOfBytes(reply))>>)

\* repository._get_head_commit(): HEAD names refs/heads/main
HeadCommit == localRefs["main"]

InitState ==
    /\ pc = "idle" /\ op = NoOp /\ refs = NoRefs /\ target = None
    /\ stack = <<>> /\ fetched = {} /\ socketOpen = FALSE /\ result = "none"
    /\ repoInit \in BOOLEAN
    /\ localObjects = {} /\ localBlocks = {} /\ localRefs = NoRefs /\ warned = FALSE
    /\ reqs = [h \in Hashes |-> 0] /\ netCalls = 0 /\ callsAtStart = 0
    /\ missed = FALSE /\ corrupted = FALSE /\ blockLog = {}
    /\ refsBefore = NoRefs /\ fetchState = "none" /\ prevFetch = None
    /\ opsDone = 0
    /\ hsReply = None /\ pushed = {} /\ log = <<>>
    /\ pkt = NoPacket /\ wire = <<>> /\ wireKind = "none"
    /\ decoded = [done |-> FALSE, error |-> None, packet |-> NoPacket]
    /\ cliSocket = "none" /\ cliMaxRetries = MaxRetries /\ cliPc = "idle"
    /\ cliRequest = NoRequest /\ cliSent = <<>> /\ cliOutcome = None /\ cliAnsweredAt = 0
    /\ srvRunning = FALSE /\ srvSocket = "none" /\ srvTasks = <<>>
    /\ srvObjects = ServedObjects /\ srvTurns = 0
    /\ srvLastIn = <<>> /\ srvLastOut = <<>> /\ srvPushAcked = {}
    /\ colCommit = None /\ colStore = {} /\ colObjects = <<>>

\* the remote repository is well-formed: its graph is the DAG above
Init == InitState /\ graph = "wellformed"

\* the remote repository holds either graph
InitAnyGraph == InitState /\ graph \in Graphs

(***************************************************************************)
(* Entering and leaving an operation.                                      *)
(***************************************************************************)
\* bookkeeping at the call of clone_repository / pull_from_remote / push_to_remote
Begin ==
    /\ pc = "idle"
    /\ opsDone < MaxOps
    /\ opsDone' = opsDone + 1
    /\ reqs' = [h \in Hashes |-> 0]
    /\ callsAtStart' = netCalls
    /\ missed' = FALSE /\ corrupted' = FALSE /\ blockLog' = {}
    /\ refsBefore' = localRefs
    /\ prevFetch' = IF fetchState = "complete" THEN target ELSE None
    /\ fetchState' = "none"
    /\ warned' = FALSE
    /\ fetched' = {} /\ refs' = NoRefs /\ target' = None
    /\ hsReply' = None /\ pushed' = {} /\ log' = <<>>
    /\ UNCHANGED <<netCalls, nonSyncVars>>

\* (mutation) the handler returns False with the client's socket left open
Raise_SocketKept ==
    /\ pc' = "idle"
    /\ result' = "false"
    /\ UNCHANGED socketOpen
    /\ stack' = <<>>

\* `except Exception as e: click.echo(...); return False`, leaving `async with`
Raise ==
    /\ pc' = "idle"
    /\ result' = "false"
    /\ socketOpen' = FALSE
    /\ stack' = <<>>

\* clone_repository up to `async with NetworkClient(...)`
StartClone(depth, path_filter) ==
    /\ Begin
    /\ op' = [kind |-> "clone", depth |-> depth, filter |-> path_filter, branch |-> "main",
              remote |-> "origin"]
    /\ stack' = <<>>
    /\ IF repoInit
       THEN \* 'Target directory is not empty.'
            /\ pc' = "idle" /\ result' = "false"
            /\ UNCHANGED <<socketOpen, repoInit>>
       ELSE \* temp_repo.init(); the client opens its socket
            /\ repoInit' = TRUE
            /\ pc' = "handshake" /\ result' = "running"
            /\ socketOpen' = TRUE
    /\ UNCHANGED <<localObjects, localBlocks, localRefs>>

\* pull_from_remote up to `async with NetworkClient(...)`
StartPull(remote_name, branch) ==
    /\ Begin
    /\ op' = [kind |-> "pull", depth |-> {}, filter |-> NoFilter, branch |-> branch,
              remote |-> remote_name]
    /\ stack' = <<>>
    /\ IF ~repoInit \/ remote_name /= "origin"
       THEN \* "Remote '<name>' not found."
            /\ pc' = "idle" /\ result' = "false"
            /\ UNCHANGED socketOpen
       ELSE /\ pc' = "handshake" /\ result' = "running"
            /\ socketOpen' = TRUE
    /\ UNCHANGED <<repoInit, localObjects, localBlocks, localRefs>>

\* push_to_remote up to `async with NetworkClient(...)`
StartPush(remote_name, branch) ==
    /\ Begin
    /\ op' = [kind |-> "push", depth |-> {}, filter |-> NoFilter, branch |-> branch,
              remote |-> remote_name]
    /\ IF ~repoInit \/ remote_name /= "origin" \/ localRefs[branch] = None
       THEN \* "Remote '<name>' not found." / "Branch '<branch>' does not exist locally."
            /\ pc' = "idle" /\ result' = "false" /\ stack' = <<>>
            /\ UNCHANGED socketOpen
       ELSE LET objects_to_push ==
                    GetObjectsToPush(localRefs[branch], {}, localObjects).objects
            IN  IF objects_to_push = <<>>
                THEN \* 'Nothing to push.'
                     /\ pc' = "idle" /\ result' = "true" /\ stack' = <<>>
                     /\ UNCHANGED socketOpen
                ELSE /\ pc' = "handshake" /\ result' = "running"
                     /\ socketOpen' = TRUE
                     /\ stack' = [i \in 1..Len(objects_to_push) |->
                                    Frame("push", objects_to_push[i], 0)]
    /\ UNCHANGED <<repoInit, localObjects, localBlocks, localRefs>>

\* `if not await client.handshake(remote): raise`
Handshake(reply) ==
    /\ pc = "handshake"
    /\ hsReply' = reply
    /\ log' = Append(log, Event("handshake",
                                IF HandshakeResult(reply) THEN "true" ELSE "false"))
    /\ IF HandshakeFailed(HandshakeResult(reply))
       THEN Raise
       ELSE /\ pc' = IF op.kind = "push" THEN "push" ELSE "refs"
            /\ UNCHANGED <<socketOpen, result, stack>>
    /\ UNCHANGED <<op, refs, target, fetched, repoVars, histVars, pushed, nonSyncVars>>

\* `success = await client.push_objects(remote, objects_to_push)`, one object of
\* it: its PUSH_REQUEST and the reply; `if not success: raise`; `return True`
PushObject(reply) ==
    /\ pc = "push" /\ stack /= <<>>
    /\ pushed' = pushed \cup {Head(stack).h}
    /\ log' = Append(log, Event("push_request", Head(stack).h))
    /\ IF ~PushAcked(reply)
       THEN Raise
       ELSE IF Tail(stack) = <<>>
       THEN /\ pc' = "idle" /\ result' = "true" /\ socketOpen' = FALSE
            /\ stack' = <<>>
       ELSE /\ stack' = Tail(stack)
            /\ UNCHANGED <<pc, result, socketOpen>>
    /\ UNCHANGED <<op, refs, target, fetched, repoVars, histVars, hsReply, nonSyncVars>>

\* `refs = await client.request_refs(remote)` and the choice of the commit
RequestRefs(reply) ==
    /\ pc = "refs"
    /\ refs' = reply
    /\ log' = Append(log, Event("ref_request", reply[op.branch]))
    /\ LET commit == reply[op.branch] IN
       IF commit = None
       THEN \* no refs / no main branch / remote branch not found
            /\ Raise
            /\ UNCHANGED <<target, fetchState>>
       ELSE IF op.kind = "pull" /\ HeadCommit = commit
       THEN \* 'Already up to date.'
            /\ pc' = "idle" /\ result' = "true" /\ socketOpen' = FALSE
            /\ UNCHANGED <<target, stack, fetchState>>
       ELSE /\ pc' = "fetch"
            /\ target' = commit
            /\ stack' = <<Frame("commit", commit, 0)>>
            /\ fetchState' = "running"
            /\ UNCHANGED <<socketOpen, result>>
    /\ UNCHANGED <<op, fetched, repoVars, reqs, netCalls, callsAtStart, missed,
                   corrupted, blockLog, refsBefore, prevFetch, opsDone, pushVars, nonSyncVars>>

(***************************************************************************)
(* The traversal.  `stack` holds, innermost first, what is still to run:   *)
(*   Frame("commit", h, d)   a call _fetch_objects_recursive(h), depth d   *)
(*   Frame("tree", h, 0)     a call _fetch_tree_recursive(h)               *)
(*   Frame("entries", t, i)  the loop over tree t's entries, at entry i    *)
(*   Frame("blocks", b, j)   the loop over blob b's block_hashes, at j     *)
(* Each action runs the code from one such point to the next.              *)
(***************************************************************************)
\* one client.request_object / client.request_block call and its reply
Request(h, reply) ==
    /\ reqs' = [reqs EXCEPT ![h] = @ + 1]
    /\ netCalls' = netCalls + 1
    /\ missed' = (missed \/ reply = None)

\* the exception raised inside the traversal reaches the operation's handler
Abort ==
    /\ Raise
    /\ fetchState' = "aborted"

Top == Head(stack)
Rest == Tail(stack)

\* _fetch_objects_recursive(object_hash, current_depth = Top.i)
FetchCommit ==
    /\ pc = "fetch" /\ stack /= <<>> /\ Top.t = "commit"
    /\ LET h == Top.h
           o == RemoteObjects[h]
       IN
       IF AlreadyFetched(h, fetched)
       THEN /\ stack' = Rest
            /\ UNCHANGED <<pc, result, socketOpen, fetched, localObjects, reqs,
                           netCalls, missed, fetchState, log>>
       ELSE \E reply \in ObjectReplies(h) :
            /\ fetched' = fetched \cup {h}
            /\ Request(h, reply)
            /\ log' = log \o ObjectExchange(h, reply, localObjects)
            /\ IF Missing(reply)
               THEN Abort /\ UNCHANGED localObjects
               ELSE /\ localObjects' = SaveObject(localObjects, h)
                    /\ stack' =
                         (IF HasParent(o) /\ WithinDepth(op.depth, Top.i)
                          THEN <<Frame("commit", o.parent, Top.i + 1)>> ELSE <<>>)
                         \o (IF HasTreeRoot(o) THEN <<Frame("tree", o.tree_root, 0)>>
                             ELSE <<>>)
                         \o Rest
                    /\ UNCHANGED <<pc, result, socketOpen, fetchState>>
    /\ UNCHANGED <<op, refs, target, repoInit, localBlocks, localRefs, warned,
                   callsAtStart, corrupted, blockLog, refsBefore, prevFetch, opsDone,
                   pushVars, nonSyncVars>>

\* _fetch_tree_recursive(tree_hash) up to its loop over the entries
FetchTree ==
    /\ pc = "fetch" /\ stack /= <<>> /\ Top.t = "tree"
    /\ LET h == Top.h IN
       IF AlreadyFetched(h, fetched)
       THEN /\ stack' = Rest
            /\ UNCHANGED <<pc, result, socketOpen, fetched, localObjects, reqs,
                           netCalls, missed, fetchState, log>>
       ELSE \E reply \in ObjectReplies(h) :
            /\ Request(h, reply)
            /\ log' = log \o ObjectExchange(h, reply, localObjects)
            /\ IF Missing(reply)
               THEN Abort /\ UNCHANGED <<fetched, localObjects>>
               ELSE /\ fetched' = fetched \cup {h}
                    /\ localObjects' = SaveObject(localObjects, h)
                    /\ stack' = (IF HasEntries(RemoteObjects[h])
                                 THEN <<Frame("entries", h, 1)>> ELSE <<>>) \o Rest
                    /\ UNCHANGED <<pc, result, socketOpen, fetchState>>
    /\ UNCHANGED <<op, refs, target, repoInit, localBlocks, localRefs, warned,
                   callsAtStart, corrupted, blockLog, refsBefore, prevFetch, opsDone,
                   pushVars, nonSyncVars>>

\* one turn of `for entry_name, entry_data in tree_dict["entries"].items()`:
\* every entry's object is requested as a blob, whatever the entry's kind
FetchEntry ==
    /\ pc = "fetch" /\ stack /= <<>> /\ Top.t = "entries"
    /\ LET es == RemoteObjects[Top.h].entries
           i == Top.i
           next == <<Frame("entries", Top.h, i + 1)>> \o Rest
       IN
       IF i > Len(es)
       THEN /\ stack' = Rest
            /\ UNCHANGED <<pc, result, socketOpen, fetched, localObjects, reqs,
                           netCalls, missed, fetchState, log>>
       ELSE IF \/ EntrySkipped(op.filter, EntryPath(<<>>, es[i].name))
               \/ AlreadyFetched(es[i].hash, fetched)
       THEN /\ stack' = next
            /\ UNCHANGED <<pc, result, socketOpen, fetched, localObjects, reqs,
                           netCalls, missed, fetchState, log>>
       ELSE \E reply \in ObjectReplies(es[i].hash) :
            /\ Request(es[i].hash, reply)
            /\ log' = log \o ObjectExchange(es[i].hash, reply, localObjects)
            /\ IF Missing(reply)
               THEN Abort /\ UNCHANGED <<fetched, localObjects>>
               ELSE /\ fetched' = fetched \cup {es[i].hash}
                    /\ localObjects' = SaveObject(localObjects, es[i].hash)
                    /\ stack' = (IF HasBlockHashes(RemoteObjects[es[i].hash])
                                 THEN <<Frame("blocks", es[i].hash, 1)>> ELSE <<>>)
                                \o next
                    /\ UNCHANGED <<pc, result, socketOpen, fetchState>>
    /\ UNCHANGED <<op, refs, target, repoInit, localBlocks, localRefs, warned,
                   callsAtStart, corrupted, blockLog, refsBefore, prevFetch, opsDone,
                   pushVars, nonSyncVars>>

\* `if stored_hash != block_hash: click.echo("Warning: Block hash mismatch ...")`:
\* the traversal goes on either way
BlockStored(block_hash, stored_hash, next) ==
    /\ warned' = (warned \/ stored_hash /= block_hash)
    /\ stack' = next
    /\ UNCHANGED <<pc, result, socketOpen, fetchState>>

\* one turn of `for block_hash in blob_dict["block_hashes"]`
FetchBlock ==
    /\ pc = "fetch" /\ stack /= <<>> /\ Top.t = "blocks"
    /\ LET bs == RemoteObjects[Top.h].block_hashes
           j == Top.i
           next == <<Frame("blocks", Top.h, j + 1)>> \o Rest
       IN
       IF j > Len(bs)
       THEN /\ stack' = Rest
            /\ UNCHANGED <<pc, result, socketOpen, fetched, localBlocks, warned, reqs,
                           netCalls, missed, corrupted, blockLog, fetchState, log>>
       ELSE IF AlreadyFetched(bs[j], fetched)
       THEN /\ stack' = next
            /\ UNCHANGED <<pc, result, socketOpen, fetched, localBlocks, warned, reqs,
                           netCalls, missed, corrupted, blockLog, fetchState, log>>
       ELSE \E reply \in BlockReplies(bs[j]) :
            /\ Request(bs[j], reply)
            /\ log' = log \o BlockExchange(bs[j], reply)
            /\ IF Missing(reply)
               THEN /\ Abort
                    /\ UNCHANGED <<fetched, localBlocks, warned, corrupted, blockLog>>
               ELSE LET stored_hash == HashOfBytes(reply) IN
                    /\ fetched' = fetched \cup {bs[j]}
                    /\ localBlocks' = localBlocks \cup {stored_hash}
                    /\ blockLog' = blockLog \cup {<<bs[j], stored_hash>>}
                    /\ corrupted' = (corrupted \/ HashOfBytes(reply) /= bs[j])
                    /\ BlockStored(bs[j], stored_hash, next)
    /\ UNCHANGED <<op, refs, target, repoInit, localObjects, localRefs,
                   callsAtStart, refsBefore, prevFetch, opsDone, pushVars, nonSyncVars>>

\* the refs written once the traversal has returned: every ref of the reply
\* (clone, `for ref_name, commit_hash in refs.items()`), the pulled branch (pull)
RefsWritten ==
    IF op.kind = "clone"
    THEN [b \in Branches |-> IF refs[b] /= None THEN refs[b] ELSE localRefs[b]]
    ELSE [localRefs EXCEPT ![op.branch] = target]

\* the code after the traversal: 'Update local refs', the end of `async with`,
\* _restore_working_tree() (which may raise) and the return
Finish(restored) ==
    /\ pc = "fetch" /\ stack = <<>>
    /\ localRefs' = RefsWritten
    /\ fetchState' = "complete"
    /\ socketOpen' = FALSE
    /\ pc' = "idle"
    /\ result' = IF restored THEN "true" ELSE "false"
    /\ UNCHANGED <<op, refs, target, stack, fetched, repoInit, localObjects,
                   localBlocks, warned, reqs, netCalls, callsAtStart, missed,
                   corrupted, blockLog, refsBefore, prevFetch, opsDone, pushVars, log,
                   nonSyncVars>>

Next ==
    \/ \E d \in Depths, f \in PathFilters : StartClone(d, f)
    \/ \E r \in RemoteNames, b \in Branches : StartPull(r, b)
    \/ \E r \in RemoteNames, b \in Branches : StartPush(r, b)
    \/ \E reply \in HandshakeReplies : Handshake(reply)
    \/ \E reply \in PushReplies : PushObject(reply)
    \/ \E reply \in {RemoteRefs, NoRefs} : RequestRefs(reply)
    \/ FetchCommit
    \/ FetchTree
    \/ FetchEntry
    \/ FetchBlock
    \/ \E restored \in BOOLEAN : Finish(restored)

Spec == Init /\ [][Next]_vars

\* a step of the traversal, from one suspension point to the next, and the
\* code after it
Traversal == FetchCommit \/ FetchTree \/ FetchEntry \/ FetchBlock
             \/ \E restored \in BOOLEAN : Finish(restored)

\* the operations against a remote that holds either graph; every exchange of
\* the client ends (with a reply, or with the retry budget spent), so the
\* coroutine that awaits it goes on
SpecAnyGraph == InitAnyGraph /\ [][Next]_vars /\ WF_vars(Traversal)

(***************************************************************************)
(* The codec at work: a packet is built and packed, the datagram may be    *)
(* tampered with or cut short, and is unpacked.                            *)
(***************************************************************************)
PackPacket(t, sid, rp, seq, total, payload) ==
    /\ wireKind = "none"
    /\ pkt' = NetworkPacket(t, sid, rp, seq, total, payload)
    /\ wire' = Pack(pkt')
    /\ wireKind' = "packed"
    /\ UNCHANGED <<decoded, nonCodecVars>>

\* the checksum with its first character replaced
FirstCharChanged(c) == [c EXCEPT ![1] = IF @ = 48 THEN 49 ELSE 48]

\* the leading checksum field replaced by another value: sixteen '0', or the
\* checksum with one character changed
CorruptChecksum(zeros) ==
    /\ wireKind = "packed" /\ ~decoded.done
    /\ LET c == IF zeros THEN Zeros ELSE FirstCharChanged(SubSeq(wire, 1, ChecksumLen))
       IN  /\ c /= Checksum(SubSeq(wire, ChecksumLen + 1, Len(wire)))
           /\ wire' = c \o SubSeq(wire, ChecksumLen + 1, Len(wire))
    /\ wireKind' = "tampered"
    /\ UNCHANGED <<pkt, decoded, nonCodecVars>>

\* a datagram cut below the minimum size
Truncate(n) ==
    /\ wireKind \in {"packed", "tampered"} /\ ~decoded.done
    /\ wire' = SubSeq(wire, 1, n)
    /\ wireKind' = "short"
    /\ UNCHANGED <<pkt, decoded, nonCodecVars>>

\* bytes that never were a packet
ShortInput(b) ==
    /\ wireKind = "none"
    /\ wire' = b
    /\ wireKind' = "short"
    /\ UNCHANGED <<pkt, decoded, nonCodecVars>>

UnpackWire ==
    /\ wireKind /= "none" /\ ~decoded.done
    /\ decoded' = [done |-> TRUE, error |-> Unpack(wire).error,
                   packet |-> Unpack(wire).packet]
    /\ UNCHANGED <<pkt, wire, wireKind, nonCodecVars>>

NextCodec ==
    \/ \E i \in 1..Len(PacketTypes), sid \in SessionIds, rp \in RepoPaths,
          seq \in Sequences, total \in TotalPackets, payload \in Payloads :
            PackPacket(PacketTypes[i], sid, rp, seq, total, payload)
    \/ \E zeros \in BOOLEAN : CorruptChecksum(zeros)
    \/ \E n \in ShortLengths : Truncate(n)
    \/ ShortInput(Str_too_short)
    \/ UnpackWire

InitCodec == Init /\ ~repoInit

SpecCodec == InitCodec /\ [][NextCodec]_vars

(***************************************************************************)
(* A NetworkClient on its own: the socket it holds and one request         *)
(* exchange at a time (send, wait, retransmit on timeout).                 *)
(***************************************************************************)
RetryBudgets == 1..MaxRetries
RequestTypes == {"HANDSHAKE", "REF_REQUEST", "OBJECT_REQUEST", "BLOCK_REQUEST",
                 "PUSH_REQUEST"}
ReplyTypes == {"HANDSHAKE_ACK", "REF_RESPONSE", "OBJECT_RESPONSE", "BLOCK_RESPONSE",
               "PUSH_RESPONSE", "ERROR"}

\* (mutation) the packet is handed to the socket without looking at it
SocketInitialized_Unchecked(socket) == TRUE

\* _send_packet: `if not self.socket: raise CofProtocolError("Socket not initialized")`
SocketInitialized(socket) == socket /= "none"

\* (mutation) max_retries retransmissions after the first transmission
RetryAllowed_OneMore(attempts, max_retries) == attempts <= max_retries

\* the retry loop: another attempt while fewer than max_retries were made
RetryAllowed(attempts, max_retries) == attempts < max_retries

\* NetworkClient(config): no socket yet
NewClient(max_retries) ==
    /\ cliSocket /= "open" /\ cliPc /= "waiting"
    /\ cliSocket' = "none" /\ cliMaxRetries' = max_retries
    /\ cliPc' = "idle" /\ cliRequest' = NoRequest /\ cliSent' = <<>>
    /\ cliOutcome' = None /\ cliAnsweredAt' = 0
    /\ UNCHANGED nonClientVars

\* __aenter__: the client opens its UDP socket
ClientOpen ==
    /\ cliSocket = "none" /\ cliPc = "idle"
    /\ cliSocket' = "open"
    /\ UNCHANGED <<cliMaxRetries, cliPc, cliRequest, cliSent, cliOutcome, cliAnsweredAt,
                   nonClientVars>>

\* __aexit__: the socket is released
ClientClose ==
    /\ cliSocket = "open" /\ cliPc /= "waiting"
    /\ cliSocket' = "released"
    /\ UNCHANGED <<cliMaxRetries, cliPc, cliRequest, cliSent, cliOutcome, cliAnsweredAt,
                   nonClientVars>>

\* a request exchange starts: the packet is handed to _send_packet, which
\* raises without a socket and transmits the datagram otherwise
StartRequest(t, sid) ==
    /\ cliPc \in {"idle", "done"} /\ cliSocket /= "released"
    /\ cliRequest' = RequestPacket(t, sid)
    /\ cliAnsweredAt' = 0
    /\ IF SocketInitialized(cliSocket)
       THEN /\ cliSent' = <<cliRequest'>>
            /\ cliPc' = "waiting" /\ cliOutcome' = None
       ELSE /\ cliSent' = <<>>
            /\ cliPc' = "done" /\ cliOutcome' = "Socket not initialized"
    /\ UNCHANGED <<cliSocket, cliMaxRetries, nonClientVars>>

\* a datagram arrives while the exchange waits: it is the exchange's reply
ReplyArrives(t) ==
    /\ cliPc = "waiting"
    /\ cliPc' = "done" /\ cliOutcome' = t
    /\ cliAnsweredAt' = Len(cliSent)
    /\ UNCHANGED <<cliSocket, cliMaxRetries, cliRequest, cliSent, nonClientVars>>

\* the receive timeout expires: the same packet is transmitted again, or the
\* exchange ends with timeout_exceeded
Timeout ==
    /\ cliPc = "waiting"
    /\ IF RetryAllowed(Len(cliSent), cliMaxRetries)
       THEN /\ cliSent' = Append(cliSent, cliRequest)
            /\ UNCHANGED <<cliPc, cliOutcome>>
       ELSE /\ cliPc' = "done" /\ cliOutcome' = "timeout_exceeded"
            /\ UNCHANGED cliSent
    /\ UNCHANGED <<cliSocket, cliMaxRetries, cliRequest, cliAnsweredAt, nonClientVars>>

NextClient ==
    \/ \E r \in RetryBudgets : NewClient(r)
    \/ ClientOpen
    \/ ClientClose
    \/ \E t \in RequestTypes, sid \in {Str_s1, Str_session} : StartRequest(t, sid)
    \/ \E t \in ReplyTypes : ReplyArrives(t)
    \/ Timeout

InitClient == Init /\ ~repoInit

SpecClient == InitClient /\ [][NextClient]_vars

(***************************************************************************)
(* The session server: NetworkServer of cof/server.py.                     *)
(* Texts travel as their bytes.                                            *)
(***************************************************************************)
\* f"Repository not found at {packet.repo_path}", up to the path
Txt_RepositoryNotFound == <<82, 101, 112, 111, 115, 105, 116, 111, 114, 121,
    32, 110, 111, 116, 32, 102, 111, 117, 110, 100, 32, 97, 116, 32>>

\* f"Object {object_hash} not found", before and after the hash
Txt_Object == <<79, 98, 106, 101, 99, 116, 32>>

Txt_NotFound == <<32, 110, 111, 116, 32, 102, 111, 117, 110, 100>>

\* f"Unknown packet type: {packet.packet_type}", up to the type
Txt_UnknownPacketType == <<85, 110, 107, 110, 111, 119, 110, 32, 112, 97, 99,
    107, 101, 116, 32, 116, 121, 112, 101, 58, 32>>

\* json.dumps({"status": "ok"})
Json_StatusOk == <<123, 34, 115, 116, 97, 116, 117, 115, 34, 58, 32, 34, 111,
    107, 34, 125>>

\* json.dumps({"status": "received"})
Json_StatusReceived == <<123, 34, 115, 116, 97, 116, 117, 115, 34, 58, 32, 34,
    114, 101, 99, 101, 105, 118, 101, 100, 34, 125>>

\* json.dumps(refs) for refs/heads = {main: C3, dev: D1}
Json_Refs == <<123, 34, 109, 97, 105, 110, 34, 58, 32, 34, 67, 51, 34, 44, 32,
    34, 100, 101, 118, 34, 58, 32, 34, 68, 49, 34, 125>>

Json_Null == <<110, 117, 108, 108>>

\* str(e) of the UnicodeDecodeError that bytes.decode() raises on a lone 0xff
Txt_Utf8Error == <<39, 117, 116, 102, 45, 56, 39, 32, 99, 111, 100, 101, 99,
    32, 99, 97, 110, 39, 116, 32, 100, 101, 99, 111, 100, 101, 32, 98, 121,
    116, 101, 32, 48, 120, 102, 102, 32, 105, 110, 32, 112, 111, 115, 105,
    116, 105, 111, 110, 32, 48, 58, 32, 105, 110, 118, 97, 108, 105, 100, 32,
    115, 116, 97, 114, 116, 32, 98, 121, 116, 101>>

Str_nope == <<110, 111, 112, 101>>

\* str(packet.packet_type) of the enum member
TypeNameBytes(t) ==
    CASE t = "HANDSHAKE" -> <<80, 97, 99, 107, 101, 116, 84, 121, 112, 101,
           46, 72, 65, 78, 68, 83, 72, 65, 75, 69>>
      [] t = "HANDSHAKE_ACK" -> <<80, 97, 99, 107, 101, 116, 84, 121, 112,
           101, 46, 72, 65, 78, 68, 83, 72, 65, 75, 69, 95, 65, 67, 75>>
      [] t = "OBJECT_REQUEST" -> <<80, 97, 99, 107, 101, 116, 84, 121, 112,
           101, 46, 79, 66, 74, 69, 67, 84, 95, 82, 69, 81, 85, 69, 83, 84>>
      [] t = "OBJECT_RESPONSE" -> <<80, 97, 99, 107, 101, 116, 84, 121, 112,
           101, 46, 79, 66, 74, 69, 67, 84, 95, 82, 69, 83, 80, 79, 78, 83,
           69>>
      [] t = "BLOCK_REQUEST" -> <<80, 97, 99, 107, 101, 116, 84, 121, 112,
           101, 46, 66, 76, 79, 67, 75, 95, 82, 69, 81, 85, 69, 83, 84>>
      [] t = "BLOCK_RESPONSE" -> <<80, 97, 99, 107, 101, 116, 84, 121, 112,
           101, 46, 66, 76, 79, 67, 75, 95, 82, 69, 83, 80, 79, 78, 83, 69>>
      [] t = "REF_REQUEST" -> <<80, 97, 99, 107, 101, 116, 84, 121, 112, 101,
           46, 82, 69, 70, 95, 82, 69, 81, 85, 69, 83, 84>>
      [] t = "REF_RESPONSE" -> <<80, 97, 99, 107, 101, 116, 84, 121, 112, 101,
           46, 82, 69, 70, 95, 82, 69, 83, 80, 79, 78, 83, 69>>
      [] t = "PUSH_REQUEST" -> <<80, 97, 99, 107, 101, 116, 84, 121, 112, 101,
           46, 80, 85, 83, 72, 95, 82, 69, 81, 85, 69, 83, 84>>
      [] t = "PUSH_RESPONSE" -> <<80, 97, 99, 107, 101, 116, 84, 121, 112,
           101, 46, 80, 85, 83, 72, 95, 82, 69, 83, 80, 79, 78, 83, 69>>
      [] t = "DATA" -> <<80, 97, 99, 107, 101, 116, 84, 121, 112, 101, 46, 68,
           65, 84, 65>>
      [] t = "ERROR" -> <<80, 97, 99, 107, 101, 116, 84, 121, 112, 101, 46,
           69, 82, 82, 79, 82>>
      [] OTHER -> <<>>

\* str(e).encode() of the exception unpack raised
ErrorText(e) ==
    CASE e = "Packet too small" -> <<80, 97, 99, 107, 101, 116, 32, 116, 111,
           111, 32, 115, 109, 97, 108, 108>>
      [] e = "checksum mismatch" -> <<99, 104, 101, 99, 107, 115, 117, 109,
           32, 109, 105, 115, 109, 97, 116, 99, 104>>
      [] e = "malformed header" -> <<109, 97, 108, 102, 111, 114, 109, 101,
           100, 32, 104, 101, 97, 100, 101, 114>>
      [] OTHER -> <<>>

\* a hash as the payload of a request carries it: hash.encode()
HashBytes(h) ==
    CASE h = "C1" -> <<67, 49>>
      [] h = "C2" -> <<67, 50>>
      [] h = "C3" -> <<67, 51>>
      [] h = "D1" -> <<68, 49>>
      [] h = "T2" -> <<84, 50>>
      [] h = "T3" -> <<84, 51>>
      [] h = "TS" -> <<84, 83>>
      [] h = "TD" -> <<84, 68>>
      [] h = "BA" -> <<66, 65>>
      [] h = "BB" -> <<66, 66>>
      [] h = "BC" -> <<66, 67>>
      [] h = "K1" -> <<75, 49>>
      [] h = "K2" -> <<75, 50>>
      [] h = "K3" -> <<75, 51>>
      [] h = "P1" -> <<80, 49>>
      [] h = "ZZ" -> <<90, 90>>
      [] h = "LG" -> <<76, 71>>
      [] OTHER -> <<>>

\* json.dumps of an object larger than a packet: {"message": "xx...x"} with
\* packet_size characters in the string
LargeObject ==
    <<123, 34, 109, 101, 115, 115, 97, 103, 101, 34, 58, 32, 34>>
    \o [i \in 1..PacketSize |-> 120] \o <<34, 125>>

\* json.dumps(obj_data).encode() of the object a hash names
Serialized(h) ==
    CASE h = "C3" -> <<123, 34, 112, 97, 114, 101, 110, 116, 34, 58, 32, 34,
           67, 50, 34, 44, 32, 34, 116, 114, 101, 101, 95, 114, 111, 111, 116,
           34, 58, 32, 34, 84, 51, 34, 125>>
      [] h = "C2" -> <<123, 34, 112, 97, 114, 101, 110, 116, 34, 58, 32, 34,
           67, 49, 34, 44, 32, 34, 116, 114, 101, 101, 95, 114, 111, 111, 116,
           34, 58, 32, 34, 84, 50, 34, 125>>
      [] h = "C1" -> <<123, 34, 112, 97, 114, 101, 110, 116, 34, 58, 32, 110,
           117, 108, 108, 44, 32, 34, 116, 114, 101, 101, 95, 114, 111, 111,
           116, 34, 58, 32, 34, 84, 50, 34, 125>>
      [] h = "D1" -> <<123, 34, 112, 97, 114, 101, 110, 116, 34, 58, 32, 34,
           67, 49, 34, 44, 32, 34, 116, 114, 101, 101, 95, 114, 111, 111, 116,
           34, 58, 32, 34, 84, 50, 34, 125>>
      [] h = "T3" -> <<123, 34, 101, 110, 116, 114, 105, 101, 115, 34, 58, 32,
           123, 34, 115, 114, 99, 34, 58, 32, 123, 34, 104, 97, 115, 104, 34,
           58, 32, 34, 84, 83, 34, 125, 44, 32, 34, 100, 111, 99, 115, 34, 58,
           32, 123, 34, 104, 97, 115, 104, 34, 58, 32, 34, 84, 68, 34, 125,
           125, 125>>
      [] h = "TS" -> <<123, 34, 101, 110, 116, 114, 105, 101, 115, 34, 58, 32,
           123, 34, 97, 46, 116, 120, 116, 34, 58, 32, 123, 34, 104, 97, 115,
           104, 34, 58, 32, 34, 66, 65, 34, 125, 125, 125>>
      [] h = "TD" -> <<123, 34, 101, 110, 116, 114, 105, 101, 115, 34, 58, 32,
           123, 34, 98, 46, 109, 100, 34, 58, 32, 123, 34, 104, 97, 115, 104,
           34, 58, 32, 34, 66, 66, 34, 125, 125, 125>>
      [] h = "T2" -> <<123, 34, 101, 110, 116, 114, 105, 101, 115, 34, 58, 32,
           123, 34, 102, 34, 58, 32, 123, 34, 104, 97, 115, 104, 34, 58, 32,
           34, 66, 65, 34, 125, 44, 32, 34, 103, 34, 58, 32, 123, 34, 104, 97,
           115, 104, 34, 58, 32, 34, 66, 65, 34, 125, 44, 32, 34, 104, 34, 58,
           32, 123, 34, 104, 97, 115, 104, 34, 58, 32, 34, 66, 67, 34, 125,
           125, 125>>
      [] h = "BA" -> <<123, 34, 98, 108, 111, 99, 107, 95, 104, 97, 115, 104,
           101, 115, 34, 58, 32, 91, 34, 75, 49, 34, 44, 32, 34, 75, 50, 34,
           93, 125>>
      [] h = "BB" -> <<123, 34, 98, 108, 111, 99, 107, 95, 104, 97, 115, 104,
           101, 115, 34, 58, 32, 91, 34, 75, 51, 34, 93, 125>>
      [] h = "BC" -> <<123, 34, 98, 108, 111, 99, 107, 95, 104, 97, 115, 104,
           101, 115, 34, 58, 32, 91, 34, 75, 50, 34, 93, 125>>
      [] h = "P1" -> <<123, 34, 112, 97, 114, 101, 110, 116, 34, 58, 32, 34,
           67, 51, 34, 44, 32, 34, 116, 114, 101, 101, 95, 114, 111, 111, 116,
           34, 58, 32, 34, 84, 51, 34, 125>>
      [] h = "LG" -> LargeObject
      [] OTHER -> Json_Null

\* the directories under root_dir that hold a repository
ServedRepos == {Str_repo}

\* CofRepository(str(root_dir / packet.repo_path))._is_repo()
IsRepo(repo_path) == repo_path \in ServedRepos

\* (mutation) every path is taken for a repository
RepoMissing_Never(packet) == FALSE

\* `if not repository._is_repo():`
RepoMissing(packet) == ~IsRepo(packet.repo_path)

\* the ERROR packets of _process_packet: session_id and repo_path of the request
ErrorReply(packet, text) ==
    NetworkPacket("ERROR", packet.session_id, packet.repo_path, 0, 1, text)

\* (mutation) the reply carries a sequence number that counts what the
\* server handled before
Reply_Sequenced(packet, packet_type, payload) ==
    NetworkPacket(packet_type, packet.session_id, packet.repo_path,
                  IF srvLastIn = <<>> THEN 0 ELSE 1, 1, payload)

\* the other replies of _process_packet
Reply(packet, packet_type, payload) ==
    NetworkPacket(packet_type, packet.session_id, packet.repo_path, 0, 1, payload)

\* packet.payload.decode() raises: some byte is no UTF-8 (the payloads here are
\* ASCII or hold a lone byte above 127)
DecodeRaises(payload) == \E i \in 1..Len(payload) : payload[i] > 127

\* repository._load_object(object_hash): the object of that name, or nothing
LoadObject(payload, objects) ==
    IF \E h \in objects : HashBytes(h) = payload
    THEN CHOOSE h \in objects : HashBytes(h) = payload
    ELSE None

\* (mutation) whatever _load_object returned is serialized
ObjectFound_Always(obj_data) == TRUE

\* `if obj_data:`
ObjectFound(obj_data) == obj_data /= None

\* the OBJECT_REQUEST branch; the `except` of _process_packet when decode raises
ObjectReply(packet, objects) ==
    IF DecodeRaises(packet.payload)
    THEN ErrorReply(packet, Txt_Utf8Error)
    ELSE LET obj_data == LoadObject(packet.payload, objects) IN
         IF ObjectFound(obj_data)
         THEN Reply(packet, "OBJECT_RESPONSE", Serialized(obj_data))
         ELSE ErrorReply(packet, Txt_Object \o packet.payload \o Txt_NotFound)

\* (mutation) a packet of no handled type is dropped
UnknownTypeReply_Dropped(packet) == NoPacket

\* the final `else:` of the dispatch
UnknownTypeReply(packet) ==
    ErrorReply(packet, Txt_UnknownPacketType \o TypeNameBytes(packet.packet_type))

\* _process_packet(packet)
ProcessPacket(packet, objects) ==
    IF RepoMissing(packet)
    THEN ErrorReply(packet, Txt_RepositoryNotFound \o packet.repo_path)
    ELSE IF packet.packet_type = "HANDSHAKE"
    THEN Reply(packet, "HANDSHAKE_ACK", Json_StatusOk)
    ELSE IF packet.packet_type = "OBJECT_REQUEST"
    THEN ObjectReply(packet, objects)
    ELSE IF packet.packet_type = "REF_REQUEST"
    THEN Reply(packet, "REF_RESPONSE", Json_Refs)
    ELSE IF packet.packet_type = "PUSH_REQUEST"
    THEN Reply(packet, "PUSH_RESPONSE", Json_StatusReceived)
    ELSE UnknownTypeReply(packet)

\* (mutation) a datagram that does not unpack is dropped
FailureReply_Dropped(text) == NoPacket

\* the `except` of _handle_packet: an ERROR packet with empty session_id and
\* repo_path and str(e) as payload
FailureReply(text) == NetworkPacket("ERROR", <<>>, <<>>, 0, 1, ErrorText(text))

\* the packet _handle_packet has to send for a datagram
Response(data, objects) ==
    LET u == Unpack(data) IN
    IF u.error /= None THEN FailureReply(u.error)
    ELSE ProcessPacket(u.packet, objects)

\* `if response and self.socket: self.socket.sendto(response.pack(), addr)`:
\* the datagram sent, <<>> for none; sendto on a closed socket raises, and so
\* does the sendto of the `except` branch that follows
Sent(response, socket) ==
    IF response /= NoPacket /\ socket = "open" THEN Pack(response) ELSE <<>>

\* self.socket.recvfrom(self.packet_size * 2): a longer datagram is cut
RecvFrom(data) ==
    IF Len(data) > 2 * PacketSize THEN SubSeq(data, 1, 2 * PacketSize) ELSE data

\* datagrams a peer may send
Datagram(t, rp, payload) == Pack(NetworkPacket(t, Str_s1, rp, 0, 1, payload))

\* corrupted[16] = b and the checksum recomputed over the changed bytes
WithTypeByte(data, b) ==
    LET body == [SubSeq(data, ChecksumLen + 1, Len(data)) EXCEPT ![1] = b]
    IN  Checksum(body) \o body

RequestPayloads(t) ==
    CASE t = "OBJECT_REQUEST" -> {HashBytes("C3"), HashBytes("LG"), HashBytes("P1"), HashBytes("ZZ"),
                                <<255>>}
      [] t = "BLOCK_REQUEST" -> {HashBytes("K1"), HashBytes("ZZ")}
      [] t = "PUSH_REQUEST" -> {Serialized("P1"), Serialized("C3")}
      [] OTHER -> {<<>>}

\* packets addressed to the served repository: the four types the dispatch
\* names, and four of those it does not
GoodTypes == {"HANDSHAKE", "OBJECT_REQUEST", "REF_REQUEST", "PUSH_REQUEST",
              "BLOCK_REQUEST", "HANDSHAKE_ACK", "DATA", "ERROR"}
GoodDatagrams ==
    UNION {{Datagram(t, Str_repo, p) : p \in RequestPayloads(t)} : t \in GoodTypes}

\* every packet type addressed to a path that holds no repository
StrayDatagrams ==
    {Datagram(PacketTypes[i], Str_nope, CHOOSE p \in RequestPayloads(PacketTypes[i]) : TRUE) :
        i \in 1..Len(PacketTypes)}

\* datagrams that are no packet, or a packet of no defined type
BadDatagrams ==
    {Str_too_short,
     Zeros \o Body("HANDSHAKE", Str_s1, Str_repo, 0, 1, <<>>),
     WithTypeByte(Datagram("HANDSHAKE", Str_repo, <<>>), 255),
     WithTypeByte(Datagram("HANDSHAKE", Str_nope, <<>>), 255)}

Datagrams == GoodDatagrams \cup StrayDatagrams \cup BadDatagrams

\* start() up to its loop: the socket is bound, running is set
ServerStart ==
    /\ ~srvRunning /\ srvSocket = "none"
    /\ srvSocket' = "open" /\ srvRunning' = TRUE
    /\ UNCHANGED <<srvTasks, srvObjects, srvTurns, srvLastIn, srvLastOut,
                   srvPushAcked, nonServerVars>>

\* one turn of `while self.running:` in which recvfrom returns a datagram:
\* a task is created for _handle_packet(data, addr)
Receive(data) ==
    /\ srvRunning /\ srvSocket = "open"
    /\ srvTurns < MaxTurns
    /\ srvTurns' = srvTurns + 1
    /\ srvTasks' = Append(srvTasks, RecvFrom(data))
    /\ UNCHANGED <<srvRunning, srvSocket, srvObjects, srvLastIn, srvLastOut,
                   srvPushAcked, nonServerVars>>

\* one turn in which recvfrom raises: `except Exception` logs the error and
\* the loop goes on
ReceiveFails ==
    /\ srvRunning /\ srvSocket = "open"
    /\ srvTurns < MaxTurns
    /\ srvTurns' = srvTurns + 1
    /\ UNCHANGED <<srvRunning, srvSocket, srvTasks, srvObjects, srvLastIn,
                   srvLastOut, srvPushAcked, nonServerVars>>

\* the oldest _handle_packet task runs, from unpack to sendto
HandlePacket ==
    /\ srvTasks /= <<>>
    /\ LET data == Head(srvTasks)
           response == Response(data, srvObjects)
           sent == Sent(response, srvSocket)
       IN  /\ srvLastIn' = data
           /\ srvLastOut' = sent
           /\ srvPushAcked' =
                IF sent /= <<>> /\ response.packet_type = "PUSH_RESPONSE"
                THEN srvPushAcked \cup {Unpack(data).packet.payload}
                ELSE srvPushAcked
    /\ srvTasks' = Tail(srvTasks)
    /\ UNCHANGED <<srvRunning, srvSocket, srvObjects, srvTurns,
                   nonServerVars>>

\* stop(), and the `finally` of start(): running is cleared, the socket closed
ServerStop ==
    /\ srvRunning
    /\ srvRunning' = FALSE /\ srvSocket' = "closed"
    /\ UNCHANGED <<srvTasks, srvObjects, srvTurns, srvLastIn, srvLastOut,
                   srvPushAcked, nonServerVars>>

NextServer ==
    \/ ServerStart
    \/ \E data \in Datagrams : Receive(data)
    \/ ReceiveFails
    \/ HandlePacket
    \/ ServerStop

InitServer == Init /\ ~repoInit

SpecServer == InitServer /\ [][NextServer]_vars

(***************************************************************************)
(* The server as the event loop runs it.  asyncio is single-threaded and   *)
(* cooperative: a task made by create_task gets the thread only when the   *)
(* running coroutine awaits.  Inside `while self.running` start() awaits   *)
(* nowhere: recvfrom is a blocking call on the socket, create_task only    *)
(* queues the task, and the `except` logs.  stop() is a coroutine of the   *)
(* same loop; start() is left by an exception that is no Exception         *)
(* (KeyboardInterrupt out of recvfrom), whose `finally` closes the socket. *)
(***************************************************************************)
\* start() is inside its loop and holds the thread
LoopHoldsThread == srvRunning

\* the event loop gives the thread to the oldest pending handler task
RunHandler == ~LoopHoldsThread /\ HandlePacket

\* the event loop is closed with the task pending: the task is cancelled
\* before its first step
CancelHandler ==
    /\ ~LoopHoldsThread /\ srvTasks /= <<>>
    /\ srvTasks' = Tail(srvTasks)
    /\ UNCHANGED <<srvRunning, srvSocket, srvObjects, srvTurns, srvLastIn, srvLastOut,
                   srvPushAcked, nonServerVars>>

NextScheduled ==
    \/ ServerStart
    \/ \E data \in Datagrams : Receive(data)
    \/ ReceiveFails
    \/ RunHandler
    \/ CancelHandler
    \/ ServerStop

\* the event loop takes the oldest pending task off its queue, to run it or
\* to cancel it
TaskTaken == ~LoopHoldsThread /\ srvTasks /= <<>> /\ srvTasks' = Tail(srvTasks)

\* the event loop is fair to its tasks: a pending task that can get the
\* thread does get it
SpecScheduled == InitServer /\ [][NextScheduled]_vars /\ WF_srvTasks(TaskTaken)

(***************************************************************************)
(* collect on its own: _get_objects_to_push(commit_hash) called on a local *)
(* repository whose object tier holds all of the graph or lacks some of it.*)
(***************************************************************************)
\* objects a local object tier may lack
Unloadable == {"C3", "C1", "T2", "TS", "BB"}
LocalStores == {ObjectHashes \ absent : absent \in SUBSET Unloadable}

\* objects_to_push = await self._get_objects_to_push(local_commit)
CollectObjects(commit_hash, store) ==
    /\ colCommit' = commit_hash
    /\ colStore' = store
    /\ colObjects' = GetObjectsToPush(commit_hash, {}, store).objects
    /\ UNCHANGED nonCollectVars

NextCollect == \E c \in Commits, s \in LocalStores : CollectObjects(c, s)

InitCollect == Init /\ ~repoInit

SpecCollect == InitCollect /\ [][NextCollect]_vars

(***************************************************************************)
(* Properties of the Graph Synchronizer.                                   *)
(***************************************************************************)
\* the objects and blocks a hash names directly
Children(h) ==
    IF h \notin ObjectHashes THEN {}
    ELSE LET o == RemoteObjects[h] IN
         (IF o.kind = "commit" THEN ({o.parent} \ {None}) \cup {o.tree_root} ELSE {})
         \cup {o.entries[i].hash : i \in 1..Len(o.entries)}
         \cup {o.block_hashes[i] : i \in 1..Len(o.block_hashes)}

RECURSIVE Reach(_)
Reach(S) ==
    LET N == S \cup UNION {Children(h) : h \in S}
    IN  IF N = S THEN S ELSE Reach(N)

\* the transitive closure of a commit in the remote graph
Closure(h) == Reach({h})

\* the commit chain from a tip, tip first
RECURSIVE ChainFrom(_)
ChainFrom(h) == IF h = None THEN <<>> ELSE <<h>> \o ChainFrom(RemoteObjects[h].parent)

\* min(d, n) for a depth {d}, n for no depth
DepthLimit(depth, n) ==
    IF depth = {} THEN n ELSE CHOOSE k \in 0..n : \E d \in depth : k = IF d < n THEN d ELSE n

InFetch == fetchState \in {"running", "aborted", "complete"}

\* C1: a request of the traversal that returns nothing aborts the operation,
\* which reports failure with every local ref as it was before the call; a
\* local ref differs from its value before the call only once the whole
\* traversal has completed without a missing reply.
C1_RefsOnlyAfterCompleteFetch ==
    /\ missed => /\ pc = "idle" /\ result = "false" /\ fetchState = "aborted"
                 /\ localRefs = refsBefore
    /\ localRefs /= refsBefore => fetchState = "complete" /\ ~missed

\* C1 witness: a pull into a cloned repository aborted midway: objects of the
\* aborted traversal are stored, the refs of the clone are untouched
C1_Witness ==
    /\ op.kind = "pull" /\ missed /\ result = "false"
    /\ refsBefore["main"] = "C3" /\ localRefs = refsBefore
    /\ "D1" \in localObjects

\* C2 (as claimed): after a complete fetch without depth and filter against a
\* remote that answered every request correctly, the local store holds the
\* whole transitive closure of the commit: ancestors, trees and sub-trees at
\* any nesting depth, their blobs and their blocks.
C2_FullClosureStored ==
    (fetchState = "complete" /\ op.depth = {} /\ op.filter = NoFilter
        /\ ~missed /\ ~corrupted)
    => Closure(target) \subseteq (localObjects \cup localBlocks)

\* C3: in a fetch with depth d of a chain of n commits, no commit beyond the
\* first min(d, n) from the tip is requested (all n without a depth); when the
\* fetch completes, each of these was requested once and is stored, with its
\* tree.
C3_DepthBound ==
    InFetch =>
      LET chain == ChainFrom(target)
          k == DepthLimit(op.depth, Len(chain))
          first == {chain[i] : i \in 1..k}
      IN  /\ \A c \in Commits \ first : reqs[c] = 0
          /\ fetchState = "complete" =>
               \A c \in first : /\ reqs[c] = 1
                                /\ c \in localObjects
                                /\ RemoteObjects[c].tree_root \in localObjects

\* C3 witness: a completed clone of C3 -> C2 -> C1 with depth 2: C3 and C2 are
\* stored, C1 was not requested
C3_Witness ==
    /\ fetchState = "complete" /\ op.kind = "clone" /\ op.depth = {2}
    /\ {"C3", "C2", "T3", "T2"} \subseteq localObjects
    /\ "C1" \notin localObjects /\ reqs["C1"] = 0

\* C4 (as claimed): a completed fetch with filter docs/* of the commit whose
\* tree holds src/a.txt and docs/b.md stores the root tree, requests and stores
\* the blob and the blocks of docs/b.md, and never requests the blob of
\* src/a.txt.
C4_DocsFilter ==
    (fetchState = "complete" /\ target = "C3" /\ op.filter = F_docs_star
        /\ ~corrupted)
    => /\ "T3" \in localObjects
       /\ reqs["BB"] = 1 /\ "BB" \in localObjects
       /\ reqs["K3"] = 1 /\ "K3" \in localBlocks
       /\ reqs["BA"] = 0

\* C5: within one traversal every hash is requested at most once, and every
\* hash the traversal has marked as fetched was requested exactly once.
C5_OneRequestPerHash ==
    \A h \in Hashes : /\ reqs[h] <= 1
                      /\ h \in fetched => reqs[h] = 1

\* C5 witness: a completed traversal over a tree shared by commits (T2), a blob
\* named twice (BA under f and g) and a block shared by blobs (K2 of BA, BC)
C5_Witness ==
    /\ fetchState = "complete"
    /\ {"C2", "C1", "T2", "BA", "BC", "K2"} \subseteq fetched
    /\ reqs["T2"] = 1 /\ reqs["BA"] = 1 /\ reqs["K2"] = 1

\* C6 (as claimed): a fetch of the commit that the operation just before it
\* fetched completely makes no request_object / request_block call.
C6_SecondFetchSilent ==
    (InFetch /\ prevFetch = target) => netCalls = callsAtStart

\* C7 (as claimed): a fetch that completes has stored every block under the
\* hash its blob advertised; a mismatch never ends in updated refs.
C7_MismatchAborts ==
    fetchState = "complete" => \A p \in blockLog : p[1] = p[2]

(***************************************************************************)
(* Properties of the Packet Codec.                                         *)
(***************************************************************************)
\* C8: unpacking a packed packet returns the packet, equal in every field,
\* the 16-character checksum included.
C8_RoundTrip ==
    (wireKind = "packed" /\ decoded.done)
    => /\ decoded.error = None
       /\ decoded.packet = pkt
       /\ Len(decoded.packet.checksum) = ChecksumLen

\* C8 witness: a DATA packet with a payload larger than the packet size, and a
\* packet with an empty payload, have made the round trip
C8_Witness ==
    /\ wireKind = "packed" /\ decoded.done /\ decoded.error = None
    /\ pkt.packet_type = "DATA" /\ pkt.session_id = Str_session
    /\ Len(pkt.payload) > PacketSize /\ Len(wire) > PacketSize

\* C9: a packed packet whose checksum field was replaced by a value that is
\* not the checksum of the remaining bytes fails to unpack with 'checksum
\* mismatch', and no packet is returned.
C9_ChecksumMismatch ==
    (wireKind = "tampered" /\ decoded.done)
    => decoded.error = "checksum mismatch" /\ decoded.packet = NoPacket

\* C9 witness: the datagram with sixteen '0' in place of its checksum was refused
C9_Witness ==
    /\ wireKind = "tampered" /\ decoded.done
    /\ SubSeq(wire, 1, ChecksumLen) = Zeros
    /\ decoded.error = "checksum mismatch"

\* C10: an input shorter than the minimum header length fails to unpack with
\* 'Packet too small', never with another failure.
C10_PacketTooSmall ==
    (decoded.done /\ Len(wire) < MinPacketSize)
    => decoded.error = "Packet too small" /\ decoded.packet = NoPacket

\* C10 witness: an input long enough to hold a checksum field, yet shorter than
\* the header, was refused as too small
C10_Witness ==
    /\ decoded.done /\ wireKind = "short"
    /\ Len(wire) >= ChecksumLen /\ Len(wire) < MinPacketSize
    /\ decoded.error = "Packet too small"

(***************************************************************************)
(* Properties of the session client inside clone, pull and push.           *)
(***************************************************************************)
\* C13: an operation goes past its handshake only when the handshake exchange
\* ended with HANDSHAKE_ACK; when it ended with another reply (ERROR, ...) or
\* with the retry budget spent, handshake yields false, nothing reaches the
\* caller as an exception, and clone / pull / push return False without having
\* sent a request.
C13_HandshakeGate ==
    /\ pc \in {"refs", "fetch", "push"} => hsReply = "HANDSHAKE_ACK"
    /\ hsReply \notin {None, "HANDSHAKE_ACK"}
         => /\ pc = "idle" /\ result = "false"
            /\ netCalls = callsAtStart /\ pushed = {}
            /\ localRefs = refsBefore

\* C13 witness: a push whose handshake ran out of retries has returned False
C13_Witness ==
    /\ op.kind = "push" /\ hsReply = "timeout_exceeded"
    /\ pc = "idle" /\ result = "false"

\* C15: no operation is left with the client's socket held: once clone, pull or
\* push has returned (True or False, by whichever path), the socket is released,
\* and it is held only between the opening of the client and the return.
C15_SocketReleased ==
    /\ pc = "idle" => ~socketOpen
    /\ socketOpen => pc \in {"handshake", "refs", "fetch", "push"}

\* C15 witness: a push that failed after its first PUSH_REQUEST, socket released
C15_Witness ==
    /\ op.kind = "push" /\ pushed /= {}
    /\ pc = "idle" /\ result = "false" /\ ~socketOpen

(***************************************************************************)
(* Properties of the client's transport.                                   *)
(***************************************************************************)
\* C12: in a request exchange every transmitted datagram is the request
\* packet itself and at most max_retries are transmitted; against a peer that
\* never answers the exchange ends with timeout_exceeded after exactly
\* max_retries transmissions; a reply that arrives during attempt k ends the
\* exchange with k transmissions, none after it.
C12_BoundedRetransmission ==
    /\ Len(cliSent) <= cliMaxRetries
    /\ \A i \in 1..Len(cliSent) : cliSent[i] = cliRequest
    /\ cliOutcome = "timeout_exceeded"
         => cliPc = "done" /\ Len(cliSent) = cliMaxRetries /\ cliAnsweredAt = 0
    /\ cliOutcome \in ReplyTypes
         => /\ cliPc = "done" /\ cliAnsweredAt \in 1..cliMaxRetries
            /\ Len(cliSent) = cliAnsweredAt

\* C12 witness: with max_retries = 3 a handshake against a silent peer has
\* ended with timeout_exceeded after three transmissions
C12_Witness ==
    /\ cliMaxRetries = 3 /\ cliRequest.packet_type = "HANDSHAKE"
    /\ cliPc = "done" /\ cliOutcome = "timeout_exceeded"
    /\ Len(cliSent) = 3

\* C14: a client that was constructed but not opened holds no socket, and a
\* packet handed to it is refused with 'Socket not initialized': no datagram
\* is transmitted and the client never waits for a reply.
C14_SocketNotInitialized ==
    cliSocket = "none"
    => /\ cliSent = <<>> /\ cliPc /= "waiting"
       /\ cliPc = "done" => cliOutcome = "Socket not initialized"

\* C14 witness: a HANDSHAKE packet handed to an unopened client was refused
C14_Witness ==
    /\ cliSocket = "none" /\ cliPc = "done"
    /\ cliRequest.packet_type = "HANDSHAKE"
    /\ cliOutcome = "Socket not initialized" /\ cliSent = <<>>

(***************************************************************************)
(* Properties of the session server.                                       *)
(***************************************************************************)
\* the latest handler run: what it was given, what it sent
Handled == srvLastIn /= <<>>
Replied == srvLastOut /= <<>>
LastRequest == Unpack(srvLastIn)
LastReply == Unpack(srvLastOut).packet

\* a datagram of sufficient size and matching checksum whose type byte is none
\* of the defined packet types
UnknownType(data) ==
    /\ ~TooSmall(data) /\ ChecksumMatches(data)
    /\ data[ChecksumLen + 1] \notin 1..Len(PacketTypes)

\* C11: a datagram with a matching checksum and an undefined type byte is not
\* refused by unpack: it decodes to a packet of type ERROR, and the server's
\* handler answers it with an ERROR packet instead of dropping it.
C11_UnknownTypeAnswered ==
    (Handled /\ UnknownType(srvLastIn))
    => LET req == LastRequest IN
       /\ req.error = None
       /\ req.packet.packet_type = "ERROR"
       /\ srvRunning => Replied
       /\ Replied => LastReply.packet_type = "ERROR"

\* C11 witness: the HANDSHAKE datagram with its type byte set to 0xFF and the
\* checksum recomputed, addressed to the served repository, was answered with
\* ERROR 'Unknown packet type: PacketType.ERROR'
C11_Witness ==
    /\ Handled /\ UnknownType(srvLastIn) /\ srvLastIn[ChecksumLen + 1] = 255
    /\ LastRequest.packet.repo_path = Str_repo
    /\ Replied /\ LastReply.packet_type = "ERROR"
    /\ LastReply.payload = Txt_UnknownPacketType \o TypeNameBytes("ERROR")

\* the names a request of this model may carry
Names == Hashes \cup {"P1", "ZZ", "LG"}

\* req, what unpack made of a datagram, is a packet of type t for the served
\* repository
Served(req, t) ==
    /\ req.error = None
    /\ req.packet.packet_type = t
    /\ IsRepo(req.packet.repo_path)

\* ... an OBJECT_REQUEST whose payload is the hash h
ObjectRequested(req, h) ==
    Served(req, "OBJECT_REQUEST") /\ req.packet.payload = HashBytes(h)

\* C16: an OBJECT_REQUEST for the served repository is answered; the answer is
\* OBJECT_RESPONSE carrying the serialized object when the hash is in the
\* store, and ERROR 'Object <hash> not found' when it is not: never
\* OBJECT_RESPONSE for an absent hash.
C16_ObjectRequest ==
    Handled =>
    LET req == LastRequest
        reply == LastReply
    IN  \A h \in Names :
          ObjectRequested(req, h)
          => /\ srvRunning => Replied
             /\ Replied =>
                  IF h \in srvObjects
                  THEN /\ reply.packet_type = "OBJECT_RESPONSE"
                       /\ reply.payload = Serialized(h)
                  ELSE /\ reply.packet_type = "ERROR"
                       /\ reply.payload = Txt_Object \o HashBytes(h) \o Txt_NotFound

\* C16 witness: the request for the absent hash ZZ was answered with ERROR
C16_Witness ==
    /\ Handled /\ ObjectRequested(LastRequest, "ZZ") /\ "ZZ" \notin srvObjects
    /\ Replied /\ LastReply.packet_type = "ERROR"

\* C17: a BLOCK_REQUEST for the served repository is answered with
\* BLOCK_RESPONSE when the block is in the store and with ERROR when it is not.
C17_BlockRequest ==
    (Handled /\ Replied) =>
    LET req == LastRequest IN
    Served(req, "BLOCK_REQUEST")
    => IF \E k \in Blocks : req.packet.payload = HashBytes(k)
       THEN LastReply.packet_type = "BLOCK_RESPONSE"
       ELSE LastReply.packet_type = "ERROR"

\* C18: once a PUSH_REQUEST carrying an object was answered with
\* PUSH_RESPONSE, an OBJECT_REQUEST for that object's hash is answered with
\* OBJECT_RESPONSE.
C18_PushStored ==
    (Handled /\ Replied) =>
    LET req == LastRequest IN
    \A h \in Names :
        (ObjectRequested(req, h) /\ Serialized(h) \in srvPushAcked)
        => LastReply.packet_type = "OBJECT_RESPONSE"

\* C19: a packet of whatever type whose repo_path is no repository is answered
\* with ERROR 'Repository not found at <repo_path>' and nothing else: never
\* with HANDSHAKE_ACK, REF_RESPONSE, OBJECT_RESPONSE or PUSH_RESPONSE.
C19_NoRepositoryNoDispatch ==
    Handled =>
    LET req == LastRequest
        reply == LastReply
    IN  (req.error = None /\ ~IsRepo(req.packet.repo_path))
        => /\ srvRunning => Replied
           /\ Replied =>
                /\ reply.packet_type = "ERROR"
                /\ reply.payload = Txt_RepositoryNotFound \o req.packet.repo_path

\* C19 witness: a HANDSHAKE for the path 'nope' was answered with ERROR
C19_Witness ==
    /\ Handled /\ LastRequest.error = None
    /\ LastRequest.packet.packet_type = "HANDSHAKE"
    /\ LastRequest.packet.repo_path = Str_nope
    /\ Replied /\ LastReply.packet_type = "ERROR"

\* the dispatch raised on req (the payload of an OBJECT_REQUEST did not decode)
DispatchRaised(req) ==
    Served(req, "OBJECT_REQUEST") /\ DecodeRaises(req.packet.payload)

\* handling the datagram that unpacked to req failed, in unpack or in the dispatch
HandlingFailed(req) == req.error /= None \/ DispatchRaised(req)

\* str(e) of that failure
FailureText(req) == IF req.error /= None THEN ErrorText(req.error) ELSE Txt_Utf8Error

\* a handler task ran in this step
HandlerRan == Len(srvTasks') < Len(srvTasks)

\* C20: when handling a datagram fails (unpack refuses it, or the dispatch
\* raises), the running server sends an ERROR packet carrying the failure's
\* text to the sender, and the handler's run leaves the server running with
\* its socket, so the loop takes the next datagram.
C20_FailureAnswered ==
    /\ []((Handled /\ srvRunning) =>
           LET req == LastRequest
               reply == LastReply
           IN  HandlingFailed(req)
               => /\ Replied
                  /\ reply.packet_type = "ERROR"
                  /\ reply.payload = FailureText(req))
    /\ [][HandlerRan => UNCHANGED <<srvRunning, srvSocket>>]_vars

\* C20 witness: a datagram with a wrong checksum was answered with ERROR
\* 'checksum mismatch', and the loop has since taken another datagram
C20_Witness ==
    /\ Handled /\ LastRequest.error = "checksum mismatch"
    /\ Replied /\ LastReply.payload = ErrorText("checksum mismatch")
    /\ srvRunning /\ srvSocket = "open" /\ srvTurns = 2 /\ srvTasks /= <<>>

\* C21: no datagram the server sends is larger than network.packet_size; a
\* response is sent as one frame with total_packets = 1 only when the packed
\* frame fits in a packet.
C21_ResponseFitsPacket ==
    (Handled /\ Replied)
    => /\ Len(srvLastOut) <= PacketSize
       /\ LastReply.total_packets = 1 => Len(srvLastOut) <= PacketSize

(***************************************************************************)
(* Properties of collect.                                                  *)
(***************************************************************************)
\* the keys of the returned mapping
CollectedKeys == {colObjects[i] : i \in 1..Len(colObjects)}

\* C22: called on a local store that holds the whole graph, collect returns a
\* mapping whose keys are the transitive closure of the commit (ancestor
\* commits, trees and nested sub-trees, blobs and blocks), each exactly once.
C22_CollectMirrorsFetch ==
    (colCommit /= None /\ colStore = ObjectHashes)
    => /\ CollectedKeys = Closure(colCommit)
       /\ Len(colObjects) = Cardinality(CollectedKeys)

(***************************************************************************)
(* Properties of the server under the event loop's scheduling.             *)
(***************************************************************************)
\* C23: every datagram received while the server is running is eventually
\* processed and answered, whether or not another datagram arrives: while a
\* handler task is pending on the running server, the run of the oldest
\* pending task and the sending of its response are bound to come.
C23_EveryDatagramAnswered ==
    \A n \in 1..MaxTurns :
        (srvRunning /\ Len(srvTasks) = n) ~> (Len(srvTasks) < n /\ Replied)

(***************************************************************************)
(* Properties of the traversal over any graph.                             *)
(***************************************************************************)
\* requests made by the running (or last) operation
RequestsMade == netCalls - callsAtStart

\* C24: over either graph, the malformed one with its cycles included, a
\* traversal requests no hash twice, makes no more requests than there are
\* distinct hashes, and ends: in success or in an abort.
C24_TraversalTerminates ==
    /\ [](/\ \A h \in Hashes : reqs[h] <= 1
          /\ RequestsMade <= Cardinality(Hashes))
    /\ (fetchState = "running") ~> (pc = "idle" /\ fetchState \in {"complete", "aborted"})

\* C24 witness: the traversal of main over the malformed graph has completed:
\* the cycle C3 -> C2 -> C1 -> C3 was walked once, the tree T2 that names
\* itself was requested once
C24_Witness ==
    /\ graph = "malformed" /\ fetchState = "complete" /\ target = "C3"
    /\ {"C3", "C2", "C1", "T2"} \subseteq localObjects
    /\ reqs["C3"] = 1 /\ reqs["T2"] = 1


(***************************************************************************)
(* C25.  A fetched commit is persisted before its tree walk begins.        *)
(***************************************************************************)
\* the positions of the log holding the event
Positions(kind, what) ==
    {i \in 1..Len(log) : log[i].kind = kind /\ log[i].what = what}

\* the commits whose request was answered in this operation
FetchedCommits ==
    {c \in Commits : Positions("request", c) /= {} /\ Positions("empty", c) = {}}

\* the tree of the commit and everything under it
TreeSide(c) ==
    IF HasTreeRoot(RemoteObjects[c]) THEN Reach({RemoteObjects[c].tree_root}) ELSE {}

\* C25: in every execution, aborted ones included, every request for the
\* tree_root of a fetched commit, or for an object under that tree, comes
\* after the store of the commit
C25_CommitStoredBeforeTree ==
    \A c \in FetchedCommits : \A x \in TreeSide(c) :
        \A j \in Positions("request", x) :
            \E k \in Positions("store", c) : k < j

\* an aborted clone whose log holds the store of C3 and, later, the request
\* for its tree T3
C25_Witness ==
    /\ fetchState = "aborted" /\ target = "C3"
    /\ Positions("store", "C3") /= {} /\ Positions("request", "T3") /= {}
    /\ "C3" \in localObjects


C27_ClonedRefsResolve ==
    (pc = "idle" /\ op.kind = "clone" /\ result = "true")
        => \A b \in Branches :
              localRefs[b] /= None => localRefs[b] \in localObjects

(***************************************************************************)
(* C28.  A failed clone or pull leaves the branch refs as they were.       *)
(***************************************************************************)
\* C28: when clone_repository or pull_from_remote has returned False, the
\* local branch refs are what they were before the call
C28_FailureKeepsRefs ==
    (pc = "idle" /\ op.kind \in {"clone", "pull"} /\ result = "false")
        => localRefs = refsBefore


(***************************************************************************)
(* C29.  The protocol steps of an operation are strictly ordered.          *)
(***************************************************************************)
\* a handshake of this operation returned true before position j of the log
HandshakeBefore(j) ==
    \E i \in 1..(j - 1) : log[i] = Event("handshake", "true")

\* before position j the ref request of this operation returned a commit
\* hash for the target branch, the one the traversal starts from
RefsBefore(j) ==
    \E i \in 1..(j - 1) :
        /\ log[i].kind = "ref_request"
        /\ log[i].what /= None /\ log[i].what = target

\* C29: no ref request, object or block request or PUSH_REQUEST is sent
\* unless a handshake of the same operation has returned true, and no object
\* or block request is sent before the ref request has returned a commit
\* hash for the target branch
C29_StepsOrdered ==
    \A j \in 1..Len(log) :
        /\ log[j].kind \in {"ref_request", "request", "push_request"}
              => HandshakeBefore(j)
        /\ log[j].kind = "request"
              => op.kind \in {"clone", "pull"} /\ RefsBefore(j)

\* a pull that went through handshake, ref request and object requests
C29_Witness ==
    /\ op.kind = "pull" /\ pc = "idle" /\ result = "true"
    /\ Len(log) >= 3 /\ log[1] = Event("handshake", "true")
    /\ log[2] = Event("ref_request", target) /\ log[3] = Event("request", target)

\* a push that sent a PUSH_REQUEST after its handshake
PushSent ==
    /\ op.kind = "push" /\ pc = "idle" /\ result = "true"
    /\ Len(log) >= 2 /\ log[1] = Event("handshake", "true")
    /\ log[2].kind = "push_request"


(***************************************************************************)
(* C30.  push sends what collect could load, and nothing when the tip      *)
(* commit does not load.                                                   *)
(***************************************************************************)
\* the commit the local ref of the pushed branch names
PushTip == localRefs[op.branch]

\* push_to_remote got as far as collecting: the remote is known and the
\* branch exists locally
PushCollects ==
    op.kind = "push" /\ repoInit /\ op.remote = "origin" /\ PushTip /= None

\* the keys _get_objects_to_push returns for the pushed branch
PushKeys ==
    LET objects == GetObjectsToPush(PushTip, {}, localObjects).objects
    IN  {objects[i] : i \in 1..Len(objects)}

\* C30: when the tip commit of the pushed branch is not in the local store,
\* push_to_remote has returned True without opening a client, a handshake
\* or a PUSH_REQUEST; and a push that returned True has sent exactly the
\* objects collect could load, all of them in the local store
C30_PushSendsWhatLoads ==
    /\ (PushCollects /\ ~Loaded(PushTip, localObjects))
          => /\ pc = "idle" /\ result = "true" /\ ~socketOpen
             /\ hsReply = None /\ pushed = {} /\ log = <<>>
    /\ (PushCollects /\ pc = "idle" /\ result = "true")
          => pushed = PushKeys /\ pushed \subseteq localObjects

\* a push of dev after a clone: the ref names D1, which the clone never
\* fetched, and the push reported success having sent nothing
C30_Witness ==
    /\ PushCollects /\ op.branch = "dev" /\ PushTip = "D1"
    /\ "D1" \notin localObjects
    /\ pc = "idle" /\ result = "true" /\ pushed = {}

\* a push that reported success without having sent every object reachable
\* from its tip
PushIncomplete ==
    /\ PushCollects /\ pc = "idle" /\ result = "true"
    /\ pushed /= {} /\ ~(Closure(PushTip) \cap ObjectHashes \subseteq pushed)

=============================================================================
